---- MODULE Spec2Model ----
(***************************************************************************)
(* Model of tno.aimms_adapter.model.model.Model: the in-memory registry    *)
(* of model runs (model_run_dict), the lifecycle operations on it and the  *)
(* storage written by store_result.                                        *)
(*                                                                         *)
(* Python values are represented as follows.                               *)
(*   Optional[T]   : a sequence of length <= 1; None is << >>, a value v   *)
(*                   is <<v>>.                                             *)
(*   str (paths)   : a sequence of one-character strings, so that slicing  *)
(*                   (path[:7], path[7:]) and split("/") are computed.     *)
(*   str (payload) : a TLA+ string; "" is the empty (falsy) string.        *)
(*   dict literal  : a record, {"path": p} is [path |-> p].                *)
(*   str(uuid4())  : a natural number; each call of uuid4 yields a number  *)
(*                   no earlier call yielded.                              *)
(***************************************************************************)
EXTENDS Naturals, Sequences, FiniteSets, TLC

\* Number of uuid4 draws (request calls) in a behaviour.
MaxIds == 2

\* Number of calls in a behaviour.
MaxCalls == 7

None == << >>
Some(v) == <<v>>

\* data_types.ModelState
ModelState ==
    {"UNKNOWN", "PENDING", "ACCEPTED", "QUEUED", "READY", "RUNNING", "SUCCEEDED", "ERROR"}

\* The run ids callers pass: the ones uuid4 can yield, issued or not.
RunIds == 1..MaxIds

\* "file:///o": a local-file output path.
LocalPath == <<"f", "i", "l", "e", ":", "/", "/", "/", "o">>
\* "b/k": a bucket/key output path.
BucketPath == <<"b", "/", "k">>
Paths == {LocalPath, BucketPath}

\* data_types.OperaAdapterConfig: only output_esdl_file_path is read by Model.
OperaAdapterConfig(path) == [output_esdl_file_path |-> path]

\* The config arguments of initialize: None (the default) or a config.
Configs == {None} \cup {Some(OperaAdapterConfig(p)) : p \in Paths}

\* Raw results handed to store_result.
RawResults == {"x"}

\* What an implementation of the abstract process_results may return.
ProcOutputs == {None, Some(""), Some("x")}

\* data_types.ModelRun
ModelRun(state, config, result) == [state |-> state, config |-> config, result |-> result]

\* data_types.ModelRunInfo, with its defaults spelled out by the callers.
ModelRunInfo(model_run_id, state, result, reason) ==
    [model_run_id |-> model_run_id, state |-> state, result |-> result, reason |-> reason]

VARIABLES
    model_run_dict,  \* self.model_run_dict: run id -> ModelRun
    minio_client,    \* TRUE iff self.minio_client is set (fixed by __init__)
    files,           \* local file system: filename -> content written
    buckets,         \* object store: the buckets that exist
    objects,         \* object store: <<bucket, key>> -> content put
    uuids,           \* number of uuid4 values drawn so far
    calls,           \* number of calls made so far
    call,            \* the last call: operation and arguments
    ret,             \* what the last call returned: Some(ModelRunInfo), None if it raised
    exc,             \* the exception the last call raised, "" if it returned
    issued,          \* history: ids returned by request
    removed,         \* history: ids whose record remove deleted
    inflight         \* a call that passed its membership test and has not yet
                     \* accessed the record (Some(call)), None if there is none

vars == <<model_run_dict, minio_client, files, buckets, objects, uuids, calls, call, ret,
          exc, issued, removed, inflight>>

store == <<files, buckets, objects>>

----------------------------------------------------------------------------
\* Python helpers

\* bool(res) for an Optional[str]
Truthy(res) == res # None /\ res[1] # ""

\* s[:n]
Prefix(s, n) == SubSeq(s, 1, IF n < Len(s) THEN n ELSE Len(s))

\* s[n:]
Suffix(s, n) == SubSeq(s, n + 1, Len(s))

\* Index of the first "/" of s, Len(s) + 1 if there is none.
FirstSlash(s) ==
    IF \E i \in 1..Len(s) : s[i] = "/"
    THEN CHOOSE i \in 1..Len(s) : s[i] = "/" /\ \A j \in 1..(i - 1) : s[j] # "/"
    ELSE Len(s) + 1

\* path.split("/")[0]
Bucket(path) == SubSeq(path, 1, FirstSlash(path) - 1)

\* "/".join(path.split("/")[1:])
RestOfPath(path) == SubSeq(path, FirstSlash(path) + 1, Len(path))

\* "file://"
FileScheme == <<"f", "i", "l", "e", ":", "/", "/">>

\* d[k] = v
Put(d, k, v) == [x \in DOMAIN d \cup {k} |-> IF x = k THEN v ELSE d[x]]

\* del d[k]
Del(d, k) == [x \in DOMAIN d \ {k} |-> d[x]]

EmptyDict == [x \in {} |-> None]

Call(op, model_run_id, config, result, res) ==
    [op |-> op, model_run_id |-> model_run_id, config |-> config, result |-> result,
     res |-> res]

\* The call c completes.
Completed(c) == calls < MaxCalls /\ calls' = calls + 1 /\ call' = c

\* The call c is made and runs to its end with no other call in between.
Called(c) == Completed(c) /\ UNCHANGED inflight

\* The call returns info.
Returns(info) == ret' = Some(info) /\ exc' = ""

\* The call raises e.
Raises(e) == ret' = None /\ exc' = e

----------------------------------------------------------------------------
\* Model.__init__: an empty registry; the object-store client is set iff an
\* endpoint is configured, which either deployment may do.
Init ==
    /\ model_run_dict = EmptyDict
    /\ minio_client \in BOOLEAN
    /\ files = EmptyDict
    /\ buckets = {}
    /\ objects = EmptyDict
    /\ uuids = 0
    /\ calls = 0
    /\ call = Call("__init__", 0, None, "", None)
    /\ ret = None
    /\ exc = ""
    /\ issued = {}
    /\ removed = {}
    /\ inflight = None

\* An id generator that hands out the smallest id not in use in the registry.
uuid4_reuse ==
    CHOOSE i \in 1..(uuids + 1) :
        /\ i \notin DOMAIN model_run_dict
        /\ \A j \in 1..(i - 1) : j \in DOMAIN model_run_dict

\* str(uuid4()): a value no earlier draw yielded.
uuid4 == uuids + 1

\* request building the registry anew around the new run.
request_clear ==
    /\ uuids < MaxIds
    /\ LET model_run_id == uuid4 IN
        /\ model_run_dict' =
               Put(EmptyDict, model_run_id, ModelRun("ACCEPTED", None, None))
        /\ Returns(ModelRunInfo(model_run_id, model_run_dict'[model_run_id].state,
                                None, None))
        /\ issued' = issued \cup {model_run_id}
    /\ uuids' = uuids + 1
    /\ Called(Call("request", 0, None, "", None))
    /\ UNCHANGED <<minio_client, store, removed>>

\* request registering the new run as PENDING instead of ACCEPTED.
request_pending ==
    /\ uuids < MaxIds
    /\ LET model_run_id == uuid4 IN
        /\ model_run_dict' =
               Put(model_run_dict, model_run_id, ModelRun("PENDING", None, None))
        /\ Returns(ModelRunInfo(model_run_id, model_run_dict'[model_run_id].state,
                                None, None))
        /\ issued' = issued \cup {model_run_id}
    /\ uuids' = uuids + 1
    /\ Called(Call("request", 0, None, "", None))
    /\ UNCHANGED <<minio_client, store, removed>>

\* Model.request
request ==
    /\ uuids < MaxIds
    /\ LET model_run_id == uuid4 IN
        /\ model_run_dict' =
               Put(model_run_dict, model_run_id, ModelRun("ACCEPTED", None, None))
        /\ Returns(ModelRunInfo(model_run_id, model_run_dict'[model_run_id].state,
                                None, None))
        /\ issued' = issued \cup {model_run_id}
    /\ uuids' = uuids + 1
    /\ Called(Call("request", 0, None, "", None))
    /\ UNCHANGED <<minio_client, store, removed>>

\* initialize replacing the record by a fresh READY one, dropping its result.
initialize_reset(model_run_id, config) ==
    /\ IF model_run_id \in DOMAIN model_run_dict
       THEN /\ model_run_dict' =
                   [model_run_dict EXCEPT ![model_run_id] = ModelRun("READY", config, None)]
            /\ Returns(ModelRunInfo(model_run_id, model_run_dict'[model_run_id].state,
                                    None, None))
       ELSE /\ Returns(ModelRunInfo(model_run_id, "ERROR", None,
                           Some("Error in Model.initialize(): model_run_id unknown")))
            /\ UNCHANGED model_run_dict
    /\ Called(Call("initialize", model_run_id, config, "", None))
    /\ UNCHANGED <<minio_client, store, uuids, issued, removed>>

\* initialize with a check of the prior state: only an ACCEPTED run is
\* initialized, any other is answered with its state and a reason.
initialize_guarded(model_run_id, config) ==
    /\ IF model_run_id \in DOMAIN model_run_dict
       THEN IF model_run_dict[model_run_id].state # "ACCEPTED"
            THEN /\ Returns(ModelRunInfo(model_run_id, model_run_dict[model_run_id].state,
                                         None, Some("Error: Model is not in ACCEPTED state")))
                 /\ UNCHANGED model_run_dict
            ELSE /\ model_run_dict' =
                        [model_run_dict EXCEPT ![model_run_id].config = config,
                                               ![model_run_id].state = "READY"]
                 /\ Returns(ModelRunInfo(model_run_id,
                                model_run_dict'[model_run_id].state, None, None))
       ELSE /\ Returns(ModelRunInfo(model_run_id, "ERROR", None,
                           Some("Error in Model.initialize(): model_run_id unknown")))
            /\ UNCHANGED model_run_dict
    /\ Called(Call("initialize", model_run_id, config, "", None))
    /\ UNCHANGED <<minio_client, store, uuids, issued, removed>>

\* initialize without the membership check: an unknown id gets a record.
initialize_upsert(model_run_id, config) ==
    /\ model_run_dict' = Put(model_run_dict, model_run_id, ModelRun("READY", config, None))
    /\ Returns(ModelRunInfo(model_run_id, model_run_dict'[model_run_id].state, None, None))
    /\ Called(Call("initialize", model_run_id, config, "", None))
    /\ UNCHANGED <<minio_client, store, uuids, issued, removed>>

\* Model.initialize, the branch of a known id.
initialize_known(model_run_id, config) ==
    /\ model_run_dict' =
           [model_run_dict EXCEPT ![model_run_id].config = config,
                                  ![model_run_id].state = "READY"]
    /\ Returns(ModelRunInfo(model_run_id, model_run_dict'[model_run_id].state, None, None))

\* Model.initialize
initialize(model_run_id, config) ==
    /\ IF model_run_id \in DOMAIN model_run_dict
       THEN initialize_known(model_run_id, config)
       ELSE /\ Returns(ModelRunInfo(model_run_id, "ERROR", None,
                           Some("Error in Model.initialize(): model_run_id unknown")))
            /\ UNCHANGED model_run_dict
    /\ Called(Call("initialize", model_run_id, config, "", None))
    /\ UNCHANGED <<minio_client, store, uuids, issued, removed>>

\* run with the READY check left out: every known run is started.
run_unguarded(model_run_id) ==
    /\ IF model_run_id \in DOMAIN model_run_dict
       THEN /\ model_run_dict' = [model_run_dict EXCEPT ![model_run_id].state = "RUNNING"]
            /\ Returns(ModelRunInfo(model_run_id, model_run_dict'[model_run_id].state,
                                    None, None))
       ELSE /\ Returns(ModelRunInfo(model_run_id, "ERROR", None,
                           Some("Error in Model.run(): model_run_id unknown")))
            /\ UNCHANGED model_run_dict
    /\ Called(Call("run", model_run_id, None, "", None))
    /\ UNCHANGED <<minio_client, store, uuids, issued, removed>>

\* Model.run, the branch of a known id.
run_known(model_run_id) ==
    LET state == model_run_dict[model_run_id].state IN
    IF state # "READY"
    THEN /\ Returns(ModelRunInfo(model_run_id, model_run_dict[model_run_id].state, None,
                                 Some("Error: Model is not in READY state")))
         /\ UNCHANGED model_run_dict
    ELSE /\ model_run_dict' = [model_run_dict EXCEPT ![model_run_id].state = "RUNNING"]
         /\ Returns(ModelRunInfo(model_run_id, model_run_dict'[model_run_id].state,
                                 None, None))

\* Model.run
run(model_run_id) ==
    /\ IF model_run_id \in DOMAIN model_run_dict
       THEN run_known(model_run_id)
       ELSE /\ Returns(ModelRunInfo(model_run_id, "ERROR", None,
                           Some("Error in Model.run(): model_run_id unknown")))
            /\ UNCHANGED model_run_dict
    /\ Called(Call("run", model_run_id, None, "", None))
    /\ UNCHANGED <<minio_client, store, uuids, issued, removed>>

\* status completing only a run that is RUNNING; any other keeps its state.
status_if_running(model_run_id) ==
    /\ IF model_run_id \in DOMAIN model_run_dict
       THEN /\ model_run_dict' =
                   IF model_run_dict[model_run_id].state = "RUNNING"
                   THEN [model_run_dict EXCEPT ![model_run_id].state = "SUCCEEDED"]
                   ELSE model_run_dict
            /\ Returns(ModelRunInfo(model_run_id, model_run_dict'[model_run_id].state,
                                    None, None))
       ELSE /\ Returns(ModelRunInfo(model_run_id, "ERROR", None,
                           Some("Error in Model.status(): model_run_id unknown")))
            /\ UNCHANGED model_run_dict
    /\ Called(Call("status", model_run_id, None, "", None))
    /\ UNCHANGED <<minio_client, store, uuids, issued, removed>>

\* status replacing the record by a fresh SUCCEEDED one, dropping its config.
status_rebuild(model_run_id) ==
    /\ IF model_run_id \in DOMAIN model_run_dict
       THEN /\ model_run_dict' =
                   [model_run_dict EXCEPT ![model_run_id] =
                        ModelRun("SUCCEEDED", None, model_run_dict[model_run_id].result)]
            /\ Returns(ModelRunInfo(model_run_id, model_run_dict'[model_run_id].state,
                                    None, None))
       ELSE /\ Returns(ModelRunInfo(model_run_id, "ERROR", None,
                           Some("Error in Model.status(): model_run_id unknown")))
            /\ UNCHANGED model_run_dict
    /\ Called(Call("status", model_run_id, None, "", None))
    /\ UNCHANGED <<minio_client, store, uuids, issued, removed>>

\* Model.status, the branch of a known id.
status_known(model_run_id) ==
    /\ model_run_dict' = [model_run_dict EXCEPT ![model_run_id].state = "SUCCEEDED"]
    /\ Returns(ModelRunInfo(model_run_id, model_run_dict'[model_run_id].state, None, None))

\* Model.status
status(model_run_id) ==
    /\ IF model_run_id \in DOMAIN model_run_dict
       THEN status_known(model_run_id)
       ELSE /\ Returns(ModelRunInfo(model_run_id, "ERROR", None,
                           Some("Error in Model.status(): model_run_id unknown")))
            /\ UNCHANGED model_run_dict
    /\ Called(Call("status", model_run_id, None, "", None))
    /\ UNCHANGED <<minio_client, store, uuids, issued, removed>>

\* results handing the result over: the record's result is cleared by the read.
results_consume(model_run_id) ==
    /\ IF model_run_id \in DOMAIN model_run_dict
       THEN /\ Returns(ModelRunInfo(model_run_id, model_run_dict[model_run_id].state,
                                    model_run_dict[model_run_id].result, None))
            /\ model_run_dict' = [model_run_dict EXCEPT ![model_run_id].result = None]
       ELSE /\ Returns(ModelRunInfo(model_run_id, "ERROR", None,
                           Some("Error in Model.results(): model_run_id unknown")))
            /\ UNCHANGED model_run_dict
    /\ Called(Call("results", model_run_id, None, "", None))
    /\ UNCHANGED <<minio_client, store, uuids, issued, removed>>

\* Model.results, the branch of a known id.
results_known(model_run_id) ==
    Returns(ModelRunInfo(model_run_id, model_run_dict[model_run_id].state,
                         model_run_dict[model_run_id].result, None))

\* Model.results
results(model_run_id) ==
    /\ IF model_run_id \in DOMAIN model_run_dict
       THEN results_known(model_run_id)
       ELSE Returns(ModelRunInfo(model_run_id, "ERROR", None,
                        Some("Error in Model.results(): model_run_id unknown")))
    /\ Called(Call("results", model_run_id, None, "", None))
    /\ UNCHANGED <<model_run_dict, minio_client, store, uuids, issued, removed>>

\* store_artifact recording the path before it writes: the result is set even
\* when the local backend rejects the path.
store_artifact_record_first(model_run_id, res) ==
    IF model_run_dict[model_run_id].config = None
    THEN /\ Raises("AttributeError")
         /\ UNCHANGED <<model_run_dict, store>>
    ELSE LET path == model_run_dict[model_run_id].config[1].output_esdl_file_path IN
         /\ model_run_dict' =
                [model_run_dict EXCEPT ![model_run_id].result = Some([path |-> path])]
         /\ IF minio_client
            THEN /\ buckets' = buckets \cup {Bucket(path)}
                 /\ objects' = Put(objects, <<Bucket(path), RestOfPath(path)>>, res[1])
                 /\ Returns(ModelRunInfo(model_run_id, "SUCCEEDED", None, None))
                 /\ UNCHANGED files
            ELSE IF Prefix(path, 7) = FileScheme
                 THEN /\ files' = Put(files, Suffix(path, 7), res[1])
                      /\ Returns(ModelRunInfo(model_run_id, "SUCCEEDED", None, None))
                      /\ UNCHANGED <<buckets, objects>>
                 ELSE /\ Raises("IOError")
                      /\ UNCHANGED store

\* Model.store_result, the branch of a truthy res: write res to the path of the
\* run's config and record the path. config is None until initialize sets it,
\* and None.output_esdl_file_path raises AttributeError.
store_artifact(model_run_id, res) ==
    IF model_run_dict[model_run_id].config = None
    THEN /\ Raises("AttributeError")
         /\ UNCHANGED <<model_run_dict, store>>
    ELSE LET path == model_run_dict[model_run_id].config[1].output_esdl_file_path IN
         IF minio_client
         THEN LET bucket == Bucket(path)
                  rest_of_path == RestOfPath(path) IN
              /\ buckets' = buckets \cup {bucket}
              /\ objects' = Put(objects, <<bucket, rest_of_path>>, res[1])
              /\ model_run_dict' =
                     [model_run_dict EXCEPT ![model_run_id].result = Some([path |-> path])]
              /\ Returns(ModelRunInfo(model_run_id, "SUCCEEDED", None, None))
              /\ UNCHANGED files
         ELSE IF Prefix(path, 7) = FileScheme
              THEN LET filename == Suffix(path, 7) IN
                   /\ files' = Put(files, filename, res[1])
                   /\ model_run_dict' =
                          [model_run_dict EXCEPT ![model_run_id].result = Some([path |-> path])]
                   /\ Returns(ModelRunInfo(model_run_id, "SUCCEEDED", None, None))
                   /\ UNCHANGED <<buckets, objects>>
              ELSE /\ Raises("IOError")
                   /\ UNCHANGED <<model_run_dict, store>>

\* Model.store_result, the branch of a known id; res is what
\* process_results(result) returned.
store_result_known(model_run_id, res) ==
    IF Truthy(res)
    THEN store_artifact(model_run_id, res)
    ELSE /\ model_run_dict' =
                [model_run_dict EXCEPT ![model_run_id].result = Some([result |-> res])]
         /\ Returns(ModelRunInfo(model_run_id, "SUCCEEDED", None, None))
         /\ UNCHANGED store

\* Model.store_result; res is what process_results(result) returned.
store_result(model_run_id, result, res) ==
    /\ IF model_run_id \in DOMAIN model_run_dict
       THEN store_result_known(model_run_id, res)
       ELSE /\ Returns(ModelRunInfo(model_run_id, "ERROR", None,
                           Some("Error in Model.store_result(): model_run_id unknown")))
            /\ UNCHANGED <<model_run_dict, store>>
    /\ Called(Call("store_result", model_run_id, None, result, res))
    /\ UNCHANGED <<minio_client, uuids, issued, removed>>

\* The keys of d whose record is PENDING; the scan of remove visits the values
\* in insertion order, which is the order of the ids (request inserts fresh,
\* increasing keys).
PendingIds(d) == {k \in DOMAIN d : d[k].state = "PENDING"}

FirstPending(d) == CHOOSE k \in PendingIds(d) : \A j \in PendingIds(d) : k <= j

\* The scan accepting the first record it visits, PENDING or not.
AdmitFirst(d) ==
    IF Cardinality(DOMAIN d) > 0
    THEN LET m == CHOOSE k \in DOMAIN d : \A j \in DOMAIN d : k <= j IN
         [d EXCEPT ![m].state = "ACCEPTED"]
    ELSE d

\* Model.remove, the scan after the deletion. Its body for the first PENDING
\* record m is the expression statement `m.state == ModelState.ACCEPTED`: the
\* comparison is evaluated and its value dropped, so d is returned as it is.
AdmitPending(d) ==
    IF Cardinality(DOMAIN d) > 0 /\ PendingIds(d) # {}
    THEN LET m == FirstPending(d)
             compared == (d[m].state = "ACCEPTED") IN
         IF compared THEN d ELSE d
    ELSE d

\* remove without the del: the record stays in the registry.
remove_keep(model_run_id) ==
    /\ IF model_run_id \in DOMAIN model_run_dict
       THEN /\ model_run_dict' = AdmitPending(model_run_dict)
            /\ Returns(ModelRunInfo(model_run_id, "UNKNOWN", None, None))
            /\ removed' = removed \cup {model_run_id}
       ELSE /\ Returns(ModelRunInfo(model_run_id, "ERROR", None,
                           Some("Error in Model.remove(): model_run_id unknown")))
            /\ UNCHANGED <<model_run_dict, removed>>
    /\ Called(Call("remove", model_run_id, None, "", None))
    /\ UNCHANGED <<minio_client, store, uuids, issued>>

\* Model.remove
remove(model_run_id) ==
    /\ IF model_run_id \in DOMAIN model_run_dict
       THEN /\ model_run_dict' = AdmitPending(Del(model_run_dict, model_run_id))
            /\ Returns(ModelRunInfo(model_run_id, "UNKNOWN", None, None))
            /\ removed' = removed \cup {model_run_id}
       ELSE /\ Returns(ModelRunInfo(model_run_id, "ERROR", None,
                           Some("Error in Model.remove(): model_run_id unknown")))
            /\ UNCHANGED <<model_run_dict, removed>>
    /\ Called(Call("remove", model_run_id, None, "", None))
    /\ UNCHANGED <<minio_client, store, uuids, issued>>

Next ==
    \/ request
    \/ \E id \in RunIds, config \in Configs : initialize(id, config)
    \/ \E id \in RunIds : run(id)
    \/ \E id \in RunIds : status(id)
    \/ \E id \in RunIds, result \in RawResults, res \in ProcOutputs :
           store_result(id, result, res)
    \/ \E id \in RunIds : results(id)
    \/ \E id \in RunIds : remove(id)

Spec == Init /\ [][Next]_vars

\* The registry as an admission layer in front of the model hands it over: runs
\* already registered, waiting in PENDING or admitted in ACCEPTED. remove's
\* scan for PENDING records is written for such a registry.
InitPending ==
    /\ \E n \in 0..MaxIds :
        /\ model_run_dict \in
               [1..n -> {ModelRun(state, None, None) : state \in {"PENDING", "ACCEPTED"}}]
        /\ uuids = n
        /\ issued = 1..n
    /\ minio_client \in BOOLEAN
    /\ files = EmptyDict
    /\ buckets = {}
    /\ objects = EmptyDict
    /\ calls = 0
    /\ call = Call("__init__", 0, None, "", None)
    /\ ret = None
    /\ exc = ""
    /\ removed = {}
    /\ inflight = None

SpecPending == InitPending /\ [][Next]_vars

----------------------------------------------------------------------------
\* Two callers. Model takes no lock, so a call of one caller can run between
\* the membership test of another caller's call (`model_run_id in
\* self.model_run_dict`) and that call's first access to the record
\* (`self.model_run_dict[model_run_id]`).

\* The calls whose known-id branch accesses the record after the test.
RaceCalls ==
    {Call("initialize", id, config, "", None) : id \in RunIds, config \in Configs}
        \cup {Call(op, id, None, "", None) : op \in {"run", "status", "results"}, id \in RunIds}
        \cup {Call("store_result", id, None, result, res) :
                  id \in RunIds, result \in RawResults, res \in ProcOutputs}

\* The membership test of the call c finds the id in the registry; the call
\* is about to enter its known-id branch.
membership_test(c) ==
    /\ inflight = None
    /\ calls < MaxCalls
    /\ c.model_run_id \in DOMAIN model_run_dict
    /\ inflight' = Some(c)
    /\ UNCHANGED <<model_run_dict, minio_client, store, uuids, calls, call, ret, exc,
                   issued, removed>>

\* The call in flight runs its known-id branch. Every such branch starts with
\* a subscript self.model_run_dict[model_run_id] (model.py:51, 84 or 108, 124,
\* 148, 164), which raises KeyError if the key has been deleted meanwhile.
record_access ==
    /\ inflight # None
    /\ LET c == inflight[1]
           id == inflight[1].model_run_id IN
        /\ IF id \in DOMAIN model_run_dict
           THEN CASE c.op = "initialize" -> initialize_known(id, c.config) /\ UNCHANGED store
                  [] c.op = "run" -> run_known(id) /\ UNCHANGED store
                  [] c.op = "status" -> status_known(id) /\ UNCHANGED store
                  [] c.op = "results" ->
                         results_known(id) /\ UNCHANGED <<model_run_dict, store>>
                  [] c.op = "store_result" -> store_result_known(id, c.res)
           ELSE /\ Raises("KeyError")
                /\ UNCHANGED <<model_run_dict, store>>
        /\ Completed(c)
    /\ inflight' = None
    /\ UNCHANGED <<minio_client, uuids, issued, removed>>

NextRace ==
    \/ Next
    \/ \E c \in RaceCalls : membership_test(c)
    \/ record_access

SpecRace == Init /\ [][NextRace]_vars

----------------------------------------------------------------------------
\* Properties. In an action formula the unprimed variables are the state
\* before the call and call', ret', exc' are the call made and its outcome.

\* The operations that take a run id.
IdOps == {"initialize", "run", "status", "store_result", "results", "remove"}

\* C1 (as claimed): run(id) returns state RUNNING if and only if the record
\* existed and was READY; a present record in another state keeps its state.
C1_RunReturnsRunningIffReady ==
    [][call'.op = "run" =>
        LET id == call'.model_run_id
            wasReady == id \in DOMAIN model_run_dict /\ model_run_dict[id].state = "READY"
        IN  /\ (ret' # None /\ ret'[1].state = "RUNNING") <=> wasReady
            /\ (id \in DOMAIN model_run_dict /\ ~wasReady)
                   => model_run_dict'[id].state = model_run_dict[id].state]_vars

\* C1 (amended): run(id) returns state RUNNING with no reason, and stores
\* RUNNING, if and only if the record existed and was READY; a present record in
\* another state keeps its state and is answered with that state (RUNNING for a
\* run already running) and a reason.
C1_RunStartsIffReady ==
    [][call'.op = "run" =>
        LET id == call'.model_run_id
            wasReady == id \in DOMAIN model_run_dict /\ model_run_dict[id].state = "READY"
        IN  /\ ret' # None
            /\ (ret'[1].state = "RUNNING" /\ ret'[1].reason = None) <=> wasReady
            /\ wasReady => model_run_dict'[id].state = "RUNNING"
            /\ (id \in DOMAIN model_run_dict /\ ~wasReady)
                   => /\ model_run_dict'[id].state = model_run_dict[id].state
                      /\ ret'[1].state = model_run_dict[id].state
                      /\ ret'[1].reason # None]_vars

\* run has started a READY run.
C1_Witness ==
    /\ call.op = "run"
    /\ ret # None /\ ret[1].state = "RUNNING" /\ ret[1].reason = None
    /\ call.model_run_id \in DOMAIN model_run_dict
    /\ model_run_dict[call.model_run_id].state = "RUNNING"

\* C2: after store_result succeeded on a present id the stored state of the
\* record is SUCCEEDED (which is what a following results(id) reports).
C2_SubmitStoresSucceeded ==
    (call.op = "store_result" /\ ret # None /\ ret[1].state = "SUCCEEDED")
        => model_run_dict[call.model_run_id].state = "SUCCEEDED"

\* C3: remove(id) with a PENDING record among the remaining ones promotes
\* exactly one of them to ACCEPTED and leaves the others as they were.
C3_RemoveAdmitsOnePending ==
    [][(call'.op = "remove" /\ call'.model_run_id \in DOMAIN model_run_dict
            /\ PendingIds(Del(model_run_dict, call'.model_run_id)) # {}) =>
        LET remaining == Del(model_run_dict, call'.model_run_id) IN
        /\ DOMAIN model_run_dict' = DOMAIN remaining
        /\ Cardinality(PendingIds(model_run_dict')) = Cardinality(PendingIds(remaining)) - 1
        /\ \E k \in PendingIds(remaining) :
               /\ model_run_dict'[k] = [remaining[k] EXCEPT !.state = "ACCEPTED"]
               /\ \A j \in DOMAIN remaining \ {k} : model_run_dict'[j] = remaining[j]]_vars

\* C4: an operation called with an id absent from the registry returns state
\* ERROR with a non-empty reason and leaves the registry unchanged.
C4_UnknownRunIsError ==
    [][(call'.op \in IdOps /\ call'.model_run_id \notin DOMAIN model_run_dict) =>
        /\ ret' # None
        /\ ret'[1].state = "ERROR"
        /\ ret'[1].reason # None /\ ret'[1].reason # Some("")
        /\ model_run_dict' = model_run_dict]_vars

\* store_result was called with an unknown id while another run is registered.
C4_Witness ==
    /\ call.op = "store_result"
    /\ call.model_run_id \notin DOMAIN model_run_dict
    /\ model_run_dict # EmptyDict
    /\ ret # None /\ ret[1].state = "ERROR"

\* The state machine as claimed: READY is entered from ACCEPTED only.
EdgeClaimed(from, to, op) ==
    \/ from = "ACCEPTED" /\ to = "READY" /\ op = "initialize"
    \/ from = "READY" /\ to = "RUNNING" /\ op = "run"
    \/ to = "SUCCEEDED" /\ op \in {"status", "store_result"}
    \/ from = "PENDING" /\ to = "ACCEPTED" /\ op = "remove"

\* The state machine with initialize entering READY from any state.
EdgeAmended(from, to, op) ==
    \/ to = "READY" /\ op = "initialize"
    \/ from = "READY" /\ to = "RUNNING" /\ op = "run"
    \/ to = "SUCCEEDED" /\ op \in {"status", "store_result"}
    \/ from = "PENDING" /\ to = "ACCEPTED" /\ op = "remove"

\* Every record of the registry after the call is a new one made by request in
\* ACCEPTED, or an old one whose state is the same or changed along an edge by
\* a call on its id (remove's admission changes a record other than its id).
StateMachineStep(Edge(_, _, _)) ==
    \A id \in DOMAIN model_run_dict' :
        IF id \in DOMAIN model_run_dict
        THEN model_run_dict'[id].state # model_run_dict[id].state =>
                /\ Edge(model_run_dict[id].state, model_run_dict'[id].state, call'.op)
                /\ call'.op # "remove" => call'.model_run_id = id
        ELSE model_run_dict'[id].state = "ACCEPTED" /\ call'.op = "request"

\* C5 (as claimed): stored states change only along the edges of the state
\* machine, READY being entered only from ACCEPTED; no SUCCEEDED or RUNNING
\* record goes back to READY.
C5_StateMachineEdges == [][StateMachineStep(EdgeClaimed)]_vars

\* C5 (amended): stored states change only along the edges of the state
\* machine, where initialize enters READY from any state (so a RUNNING or
\* SUCCEEDED record goes back to READY when it is initialized again): created
\* in ACCEPTED by request, READY only by initialize, RUNNING only from READY by
\* run, SUCCEEDED from any state by status or store_result, ACCEPTED from
\* PENDING only by remove.
C5_StateMachineEdgesReinit == [][StateMachineStep(EdgeAmended)]_vars

\* initialize was called again on a run whose artifact store_result had
\* recorded (so it had been initialized before), and the run is READY.
C5_Witness ==
    /\ call.op = "initialize"
    /\ call.model_run_id \in DOMAIN model_run_dict
    /\ model_run_dict[call.model_run_id].state = "READY"
    /\ \E path \in Paths : model_run_dict[call.model_run_id].result = Some([path |-> path])

\* The artifact res is stored under path by the active backend.
Stored(path, res) ==
    IF minio_client
    THEN /\ <<Bucket(path), RestOfPath(path)>> \in DOMAIN objects'
         /\ objects'[<<Bucket(path), RestOfPath(path)>>] = res
    ELSE /\ Suffix(path, 7) \in DOMAIN files'
         /\ files'[Suffix(path, 7)] = res

\* C6: store_result on a present id that returns: a non-empty processor output
\* is written at config.output_esdl_file_path and result is {"path": path}; an
\* empty one writes nothing and result is {"result": rawResult}.
C6_ResultFromProcessor ==
    [][(call'.op = "store_result" /\ call'.model_run_id \in DOMAIN model_run_dict
            /\ ret' # None) =>
        LET id == call'.model_run_id IN
        IF Truthy(call'.res)
        THEN LET path == model_run_dict[id].config[1].output_esdl_file_path IN
             /\ Stored(path, call'.res[1])
             /\ model_run_dict'[id].result = Some([path |-> path])
        ELSE /\ UNCHANGED store
             /\ model_run_dict'[id].result = Some([result |-> Some(call'.result)])]_vars

\* C7: remove(id) on a present id deletes the record and returns UNKNOWN, and
\* every later operation on an id that was removed returns ERROR and finds no
\* record for it.
C7_RemovedStaysUnknown ==
    [][/\ (call'.op = "remove" /\ call'.model_run_id \in DOMAIN model_run_dict) =>
            /\ call'.model_run_id \notin DOMAIN model_run_dict'
            /\ ret' # None /\ ret'[1].state = "UNKNOWN"
       /\ (call'.op \in IdOps /\ call'.model_run_id \in removed) =>
            /\ ret' # None /\ ret'[1].state = "ERROR"
            /\ call'.model_run_id \notin DOMAIN model_run_dict'
       /\ removed \cap DOMAIN model_run_dict' = {}]_vars

\* An operation other than remove was called on a removed id while another
\* run is registered, and returned ERROR.
C7_Witness ==
    /\ call.op \in IdOps \ {"remove"}
    /\ call.model_run_id \in removed
    /\ model_run_dict # EmptyDict
    /\ ret # None /\ ret[1].state = "ERROR"

\* C8: the id request returns was returned by no earlier request, removed or
\* not, and names the record just made.
C8_FreshIds ==
    [][call'.op = "request" =>
        /\ ret' # None
        /\ ret'[1].model_run_id \notin issued \cup removed
        /\ ret'[1].model_run_id \in DOMAIN model_run_dict'
        /\ DOMAIN model_run_dict' = DOMAIN model_run_dict \cup {ret'[1].model_run_id}]_vars

\* request has returned a second id after the first was removed.
C8_Witness ==
    /\ call.op = "request"
    /\ removed # {}
    /\ Cardinality(issued) >= 2

\* C9 (as claimed): a config is set once: a record whose config is set keeps
\* it under every later call, another initialize included.
C9_ConfigSetOnce ==
    [][\A id \in DOMAIN model_run_dict \cap DOMAIN model_run_dict' :
          /\ model_run_dict[id].config # None
                 => model_run_dict'[id].config = model_run_dict[id].config
          /\ model_run_dict'[id].config # model_run_dict[id].config
                 => call'.op = "initialize" /\ call'.model_run_id = id]_vars

\* C9 (amended): a record's config is changed only by initialize on its id,
\* which sets it to its argument at every call, replacing a config set before;
\* no other operation changes it.
C9_ConfigOnlyByInitialize ==
    [][/\ \A id \in DOMAIN model_run_dict \cap DOMAIN model_run_dict' :
              model_run_dict'[id].config # model_run_dict[id].config
                  => call'.op = "initialize" /\ call'.model_run_id = id
       /\ (call'.op = "initialize" /\ call'.model_run_id \in DOMAIN model_run_dict)
              => model_run_dict'[call'.model_run_id].config = call'.config
       /\ \A id \in DOMAIN model_run_dict' \ DOMAIN model_run_dict :
              model_run_dict'[id].config = None]_vars

\* A call other than initialize was made on a run whose config is set.
C9_Witness ==
    /\ call.op \in {"run", "status", "store_result"}
    /\ call.model_run_id \in DOMAIN model_run_dict
    /\ model_run_dict[call.model_run_id].config # None
    /\ model_run_dict[call.model_run_id].state \in {"RUNNING", "SUCCEEDED"}

\* C10: a record whose stored state is RUNNING has a config.
C10_RunningHasConfig ==
    \A id \in DOMAIN model_run_dict :
        model_run_dict[id].state = "RUNNING" => model_run_dict[id].config # None

\* C11 (as claimed): a result is set once: a record whose result is set keeps
\* it under every later call, another store_result included.
C11_ResultSetOnce ==
    [][\A id \in DOMAIN model_run_dict \cap DOMAIN model_run_dict' :
          /\ model_run_dict[id].result # None
                 => model_run_dict'[id].result = model_run_dict[id].result
          /\ model_run_dict'[id].result # model_run_dict[id].result
                 => call'.op = "store_result" /\ call'.model_run_id = id]_vars

\* C11 (amended): a record's result is set only by store_result on its id,
\* which sets it at every call that returns, replacing a result set before; no
\* other operation changes it, and a new record has none.
C11_ResultOnlyByStoreResult ==
    [][/\ \A id \in DOMAIN model_run_dict \cap DOMAIN model_run_dict' :
              model_run_dict'[id].result # model_run_dict[id].result
                  => call'.op = "store_result" /\ call'.model_run_id = id
       /\ (call'.op = "store_result" /\ call'.model_run_id \in DOMAIN model_run_dict
               /\ ret' # None)
              => model_run_dict'[call'.model_run_id].result # None
       /\ \A id \in DOMAIN model_run_dict' \ DOMAIN model_run_dict :
              model_run_dict'[id].result = None]_vars

\* A call other than store_result was made on a run whose result is set.
C11_Witness ==
    /\ call.op \in {"initialize", "run", "status", "results"}
    /\ call.model_run_id \in DOMAIN model_run_dict
    /\ model_run_dict[call.model_run_id].result # None

\* C12: results(id) changes neither the registry nor the storage, on a present
\* id it returns the record's state and result, and a results(id) that follows
\* a results(id) returns the same result.
C12_ResultsIsPureRead ==
    [][call'.op = "results" =>
        /\ model_run_dict' = model_run_dict
        /\ UNCHANGED <<store, minio_client>>
        /\ ret' # None
        /\ call'.model_run_id \in DOMAIN model_run_dict =>
               /\ ret'[1].state = model_run_dict[call'.model_run_id].state
               /\ ret'[1].result = model_run_dict[call'.model_run_id].result
        /\ (call.op = "results" /\ call.model_run_id = call'.model_run_id)
               => ret'[1].result = ret[1].result]_vars

\* results(id) was called on a run whose result store_result had set, and
\* returned it.
C12_Witness ==
    /\ call.op = "results"
    /\ ret # None /\ ret[1].result # None
    /\ ret[1].result = model_run_dict[call.model_run_id].result

\* C13: initialize(id, config) on a present id stores config, sets and returns
\* READY whatever the state was, and leaves the record's result and every
\* other record as they were.
C13_InitializeSetsReady ==
    [][(call'.op = "initialize" /\ call'.model_run_id \in DOMAIN model_run_dict) =>
        LET id == call'.model_run_id IN
        /\ model_run_dict' =
               [model_run_dict EXCEPT ![id] =
                    ModelRun("READY", call'.config, model_run_dict[id].result)]
        /\ ret' = Some(ModelRunInfo(id, "READY", None, None))
        /\ UNCHANGED store]_vars

\* initialize has stored a config in a run and made it READY while another
\* run is registered.
C13_Witness ==
    /\ call.op = "initialize"
    /\ call.model_run_id \in DOMAIN model_run_dict
    /\ call.config # None
    /\ model_run_dict[call.model_run_id] =
           ModelRun("READY", call.config, model_run_dict[call.model_run_id].result)
    /\ Cardinality(DOMAIN model_run_dict) >= 2

\* C14: status(id) on a present id sets and returns SUCCEEDED whatever the
\* state was, and leaves config, result and every other record as they were.
C14_StatusSetsSucceeded ==
    [][(call'.op = "status" /\ call'.model_run_id \in DOMAIN model_run_dict) =>
        LET id == call'.model_run_id IN
        /\ model_run_dict' = [model_run_dict EXCEPT ![id].state = "SUCCEEDED"]
        /\ ret' = Some(ModelRunInfo(id, "SUCCEEDED", None, None))
        /\ UNCHANGED store]_vars

\* status has made a run SUCCEEDED that was never initialized.
C14_Witness ==
    /\ call.op = "status"
    /\ call.model_run_id \in DOMAIN model_run_dict
    /\ model_run_dict[call.model_run_id] = ModelRun("SUCCEEDED", None, None)
    /\ ret # None /\ ret[1].state = "SUCCEEDED"

\* C15: remove(id) on a present id with no PENDING record among the remaining
\* ones leaves the registry as it was minus the entry of id.
C15_RemoveChangesNoOther ==
    [][(call'.op = "remove" /\ call'.model_run_id \in DOMAIN model_run_dict
            /\ PendingIds(Del(model_run_dict, call'.model_run_id)) = {}) =>
        /\ model_run_dict' = Del(model_run_dict, call'.model_run_id)
        /\ UNCHANGED store]_vars

\* remove has deleted a run and a run that is past ACCEPTED remains.
C15_Witness ==
    /\ call.op = "remove"
    /\ ret # None /\ ret[1].state = "UNKNOWN"
    /\ \E id \in DOMAIN model_run_dict :
           /\ model_run_dict[id].state # "ACCEPTED"
           /\ model_run_dict[id].config # None

\* C16: request returns, and adds one record to the registry: ACCEPTED with no
\* config and no result, under a new id, which it returns with state ACCEPTED;
\* the records there before are unchanged.
C16_RequestAddsOneRecord ==
    [][call'.op = "request" =>
        /\ ret' # None /\ exc' = ""
        /\ ret'[1].model_run_id \notin DOMAIN model_run_dict
        /\ model_run_dict' =
               Put(model_run_dict, ret'[1].model_run_id, ModelRun("ACCEPTED", None, None))
        /\ ret' = Some(ModelRunInfo(ret'[1].model_run_id, "ACCEPTED", None, None))
        /\ UNCHANGED store]_vars

\* request has added a second run beside one that is past ACCEPTED.
C16_Witness ==
    /\ call.op = "request"
    /\ ret # None /\ ret[1].state = "ACCEPTED"
    /\ Cardinality(DOMAIN model_run_dict) = 2
    /\ \E id \in DOMAIN model_run_dict : model_run_dict[id].state # "ACCEPTED"

\* C17: with the local-file backend, store_result with a non-empty artifact
\* and an output path that does not start with file:// raises IOError and
\* leaves the record and the storage as they were.
C17_UnsupportedPathAborts ==
    [][(/\ call'.op = "store_result"
        /\ call'.model_run_id \in DOMAIN model_run_dict
        /\ ~minio_client
        /\ Truthy(call'.res)
        /\ model_run_dict[call'.model_run_id].config # None
        /\ Prefix(model_run_dict[call'.model_run_id].config[1].output_esdl_file_path, 7)
               # FileScheme) =>
        /\ ret' = None
        /\ exc' = "IOError"
        /\ model_run_dict' = model_run_dict
        /\ UNCHANGED store]_vars

\* store_result has raised IOError on a run that is still registered.
C17_Witness ==
    /\ call.op = "store_result"
    /\ exc = "IOError"
    /\ ~minio_client
    /\ call.model_run_id \in DOMAIN model_run_dict
    /\ model_run_dict[call.model_run_id].config = Some(OperaAdapterConfig(BucketPath))

\* C18: store_result on a present id returns or raises IOError (the
\* unsupported path scheme); it fails in no other way.
C18_SubmitFailsOnlyOnPathScheme ==
    (call.op = "store_result" /\ call.model_run_id \in DOMAIN model_run_dict)
        => exc \in {"", "IOError"}

\* C19: every stored state is ACCEPTED, READY, RUNNING or SUCCEEDED.
C19_StoredStates ==
    \A id \in DOMAIN model_run_dict :
        model_run_dict[id].state \in {"ACCEPTED", "READY", "RUNNING", "SUCCEEDED"}

\* A call has returned ERROR or UNKNOWN while a RUNNING run is registered.
C19_Witness ==
    /\ ret # None /\ ret[1].state \in {"ERROR", "UNKNOWN"}
    /\ \E id \in DOMAIN model_run_dict : model_run_dict[id].state = "RUNNING"

\* C20: with two callers, a call on an id that remove has deleted, also when
\* the deletion came between the call's membership test and its access to the
\* record, ends in a ModelRunInfo and raises nothing, and no record of a
\* removed id is in the registry.
C20_RaceEndsInRunInfo ==
    /\ (call.op \in {"initialize", "run", "status", "store_result", "results"}
            /\ call.model_run_id \in removed)
           => (ret # None /\ exc = "")
    /\ removed \cap DOMAIN model_run_dict = {}

====
